---- MODULE Spec2Model ----
(***************************************************************************)
(* Model of package gosse (sse.go): the Server registry of SSE clients,   *)
(* its control loop Run, the public calls AddClient, RemoveClient,        *)
(* Shutdown, ClientCount, BroadcastMessage and SendMessageToClient, and   *)
(* the id generator generateClientID; and of the HTTP adapter             *)
(* SSEHandlerEndpoint (handler.go) that serves one subscriber.            *)
(*                                                                         *)
(* Each goroutine is a process with a program counter.  A step is one     *)
(* operation on a shared object (a sync.Map call, a channel operation, a  *)
(* section under clientCountM).  s.add and s.remove are unbuffered, so a  *)
(* send and the matching receive of Run's select are one joint step.  A   *)
(* run-time panic in any goroutine ends the process: panic # NoPanic      *)
(* disables every action.                                                  *)
(***************************************************************************)
EXTENDS Integers, Sequences, FiniteSets, TLC

\* ---------------------------------------------------------------- bounds
NumCallers == 2
MaxAdds == 2
MaxCalls == 4
NumPayloads == 1
SmallBuffer == 1
\* calls begun in the behaviours of the fair specification
FairCalls == 3

\* ------------------------------------------------------ program constants
DefaultBufferSize == 10

Callers == 1..NumCallers
Ptrs == 1..MaxAdds
\* The ids generateClientID can draw.  The real space (20 base64 characters)
\* is far larger than the number of clients; here it is as large as the
\* number of AddClient calls, so a fresh id always exists and collisions
\* with live ids still happen.
Ids == 1..MaxAdds
Payloads == 1..NumPayloads
BufferSizes == {SmallBuffer, DefaultBufferSize}

NoPanic == ""
PanicTypeAssertion == "interface conversion: interface {} is struct {}, not *gosse.Client"
PanicCloseClosed == "close of closed channel"
PanicSendClosed == "send on closed channel"
PanicCloseDone == "close of closed channel (done)"

VARIABLES
    clients,      \* s.clients: id -> entry (none, the struct{}{} placeholder, or a *Client)
    clientCount,  \* s.clientCount
    doneClosed,   \* s.done has been closed
    heap,         \* the Client objects made by AddClient, by pointer
    runPc,        \* position of the goroutine executing Run
    runLoc,       \* Run's locals
    pc,           \* position of each calling goroutine
    loc,          \* locals of each calling goroutine
    ret,          \* what each caller's last finished call returned
    panic,        \* NoPanic, or the message of the panic that ended the process
    calls         \* number of public calls begun

vars == <<clients, clientCount, doneClosed, heap, runPc, runLoc, pc, loc, ret, panic, calls>>

\* ------------------------------------------------------------- sync.Map
NoEntry == [kind |-> "none", ptr |-> 0]
PlaceholderEntry == [kind |-> "placeholder", ptr |-> 0]
ClientEntry(k) == [kind |-> "client", ptr |-> k]

Load(m, id) == m[id]
LoadOk(m, id) == m[id].kind # "none"
Store(m, id, v) == [m EXCEPT ![id] = v]
Delete(m, id) == [m EXCEPT ![id] = NoEntry]
\* LoadOrStore: loaded reports whether the key was present; the value is
\* stored only when it was not.
LoadOrStoreLoadedNever(m, id) == FALSE
LoadOrStoreLoaded(m, id) == m[id].kind # "none"
LoadOrStore(m, id, v) == IF LoadOrStoreLoaded(m, id) THEN m ELSE [m EXCEPT ![id] = v]
Keys(m) == {id \in Ids : m[id].kind # "none"}

\* Range calls f for keys of the map; it is no snapshot: a key stored while
\* it runs may or may not be visited, a key is visited at most once.  snap
\* is the set of keys present since Range began, which it must cover; a
\* key deleted while Range runs leaves snap (RangeForget), so that a later
\* entry under the same key counts as stored while it runs.
RangeCandidates(m, visited) == Keys(m) \ visited
RangeNeverDone(snap, visited) == FALSE
RangeDone(snap, visited) == snap \subseteq visited
RangeForget(l, id) == [l EXCEPT !.snap = @ \ {id}]

\* ---------------------------------------------------------------- Client
\* st is the life of the object: "free" (not allocated), "built" (made by
\* AddClient, id reserved), "handed" (received by Run, AddClient returned),
\* "stored", "live" (counted), "deleted", "closed", "gone" (uncounted).
FreeClient == [ID |-> 0, cap |-> 0, Message |-> <<>>, closes |-> 0, st |-> "free"]
NewClient(id, size) == [ID |-> id, cap |-> size, Message |-> <<>>, closes |-> 0, st |-> "built"]
Allocated(h) == {k \in Ptrs : h[k].st # "free"}
NextPtr(h) == Cardinality(Allocated(h)) + 1
\* AddClient calls begun: clients built, and callers still drawing an id.
AddsBegun == Cardinality(Allocated(heap)) + Cardinality({c \in Callers : pc[c] = "add_gen"})

CloseChanNoop(o) == o
CloseChan(o) == [o EXCEPT !.closes = @ + 1]
IsClosed(o) == o.closes > 0
CanSendAlways(o) == TRUE
CanSend(o) == Len(o.Message) < o.cap
SendChanTwice(o, msg) == [o EXCEPT !.Message = Append(Append(@, msg), msg)]
SendChanFront(o, msg) == [o EXCEPT !.Message = <<msg>> \o @]
SendChan(o, msg) == [o EXCEPT !.Message = Append(@, msg)]

incrementClientCountTwice(n) == n + 2
incrementClientCount(n) == n + 1
decrementClientCountNoop(n) == n
decrementClientCount(n) == n - 1
ClientCount == clientCount

\* ----------------------------------------------------------------- state
\* A payload on its way: p is the []byte given to the delivery call; call
\* numbers that call and after holds the calls that had returned when it
\* began (what a test sees when it sends one message after another).
\* pre is what a call that began alone (no other call in progress, the loop
\* waiting at its select, no Shutdown) found: the clients and the count.
NoPre == [heap |-> <<>>, count |-> 0]
NoMsg == [p |-> 0, call |-> 0, after |-> {}]
Msg(p, n, after) == [p |-> p, call |-> n, after |-> after]
NoRunLoc == [obj |-> 0, id |-> 0, val |-> NoEntry, snap |-> {}, visited |-> {}]
NoLoc == [size |-> 0, obj |-> 0, id |-> 0, own |-> 0, late |-> FALSE, val |-> NoEntry,
          msg |-> NoMsg, snap |-> {}, visited |-> {}, err |-> "nil", errId |-> 0,
          ep |-> FALSE, got |-> <<>>, wire |-> <<>>, flushed |-> 0, status |-> 0,
          exit |-> "", alone |-> FALSE, pre |-> NoPre, fails |-> <<>>]
NoRet == [kind |-> "none", v |-> 0]

Init ==
    /\ clients = [id \in Ids |-> NoEntry]
    /\ clientCount = 0
    /\ doneClosed = FALSE
    /\ heap = [k \in Ptrs |-> FreeClient]
    /\ runPc = "select"
    /\ runLoc = NoRunLoc
    /\ pc = [c \in Callers |-> "idle"]
    /\ loc = [c \in Callers |-> NoLoc]
    /\ ret = [c \in Callers |-> NoRet]
    /\ panic = NoPanic
    /\ calls = 0

Alive == panic = NoPanic
CanCall(c) == Alive /\ pc[c] = "idle" /\ calls < MaxCalls
Return(c, r) ==
    /\ pc' = [pc EXCEPT ![c] = "idle"]
    /\ loc' = [loc EXCEPT ![c] = NoLoc]
    /\ ret' = [ret EXCEPT ![c] = r]

\* ------------------------------------------------------------- AddClient
\* late records that the call began after Shutdown had been called.
AddClient(c, size) ==
    /\ CanCall(c)
    /\ AddsBegun < MaxAdds
    /\ calls' = calls + 1
    /\ pc' = [pc EXCEPT ![c] = "add_gen"]
    /\ loc' = [loc EXCEPT ![c] = [NoLoc EXCEPT !.size = size, !.late = doneClosed]]
    /\ ret' = [ret EXCEPT ![c] = NoRet]
    /\ UNCHANGED <<clients, clientCount, doneClosed, heap, runPc, runLoc, panic>>

\* One turn of generateClientID's loop with the id the random source gave,
\* then (on a fresh id) the construction of the Client around it.
generateClientID(c) ==
    /\ Alive
    /\ pc[c] = "add_gen"
    /\ \E id \in Ids :
        IF LoadOrStoreLoaded(clients, id)
        THEN UNCHANGED vars
        ELSE /\ clients' = LoadOrStore(clients, id, PlaceholderEntry)
             /\ heap' = [heap EXCEPT ![NextPtr(heap)] = NewClient(id, loc[c].size)]
             /\ loc' = [loc EXCEPT ![c].obj = NextPtr(heap), ![c].id = id]
             /\ pc' = [pc EXCEPT ![c] = "add_send"]
             /\ UNCHANGED <<clientCount, doneClosed, runPc, runLoc, ret, panic, calls>>

\* s.add <- client, received by Run's select; AddClient returns the client.
AddClientSend(c) ==
    /\ Alive
    /\ pc[c] = "add_send"
    /\ runPc = "select"
    /\ runPc' = "add_store"
    /\ runLoc' = [NoRunLoc EXCEPT !.obj = loc[c].obj]
    /\ heap' = [heap EXCEPT ![loc[c].obj].st = "handed"]
    /\ IF loc[c].ep
       THEN /\ pc' = [pc EXCEPT ![c] = "ep_headers"]
            /\ UNCHANGED <<loc, ret>>
       ELSE Return(c, [kind |-> "client", v |-> loc[c].obj])
    /\ UNCHANGED <<clients, clientCount, doneClosed, panic, calls>>

RunAddStore ==
    /\ Alive
    /\ runPc = "add_store"
    /\ clients' = Store(clients, heap[runLoc.obj].ID, ClientEntry(runLoc.obj))
    /\ heap' = [heap EXCEPT ![runLoc.obj].st = "stored"]
    /\ runPc' = "add_incr"
    /\ UNCHANGED <<clientCount, doneClosed, runLoc, pc, loc, ret, panic, calls>>

RunAddIncrement ==
    /\ Alive
    /\ runPc = "add_incr"
    /\ clientCount' = incrementClientCount(clientCount)
    /\ heap' = [heap EXCEPT ![runLoc.obj].st = "live"]
    /\ runPc' = "select"
    /\ runLoc' = NoRunLoc
    /\ UNCHANGED <<clients, doneClosed, pc, loc, ret, panic, calls>>

\* ---------------------------------------------------------- RemoveClient
\* own is the client this caller's previous call, an AddClient, returned,
\* when id is that client's id (add immediately followed by remove).
RemoveClient(c, id) ==
    /\ CanCall(c)
    /\ calls' = calls + 1
    /\ pc' = [pc EXCEPT ![c] = "rm_send"]
    /\ loc' = [loc EXCEPT ![c] = [NoLoc EXCEPT !.id = id, !.late = doneClosed,
                  !.own = IF ret[c].kind = "client" /\ heap[ret[c].v].ID = id
                          THEN ret[c].v ELSE 0]]
    /\ ret' = [ret EXCEPT ![c] = NoRet]
    /\ UNCHANGED <<clients, clientCount, doneClosed, heap, runPc, runLoc, panic>>

\* s.remove <- clientID, received by Run's select; RemoveClient returns.
RemoveClientSend(c) ==
    /\ Alive
    /\ pc[c] = "rm_send"
    /\ runPc = "select"
    /\ runPc' = "rm_load"
    /\ runLoc' = [NoRunLoc EXCEPT !.id = loc[c].id]
    /\ Return(c, IF loc[c].ep THEN [kind |-> "endpoint", v |-> loc[c].obj, exit |-> loc[c].exit]
                              ELSE [kind |-> "void", v |-> 0])
    /\ UNCHANGED <<clients, clientCount, doneClosed, heap, panic, calls>>

RunRemoveLoad ==
    /\ Alive
    /\ runPc = "rm_load"
    /\ IF LoadOk(clients, runLoc.id)
       THEN /\ runLoc' = [runLoc EXCEPT !.val = Load(clients, runLoc.id)]
            /\ runPc' = "rm_delete"
       ELSE /\ runLoc' = NoRunLoc
            /\ runPc' = "select"
    /\ UNCHANGED <<clients, clientCount, doneClosed, heap, pc, loc, ret, panic, calls>>

DeleteSkipped(m, id) == m
RunDeleteEntry(m, id) == Delete(m, id)

RunRemoveDelete ==
    /\ Alive
    /\ runPc = "rm_delete"
    /\ clients' = RunDeleteEntry(clients, runLoc.id)
    /\ heap' = IF runLoc.val.kind = "client"
               THEN [heap EXCEPT ![runLoc.val.ptr].st = "deleted"]
               ELSE heap
    /\ loc' = [c \in Callers |-> RangeForget(loc[c], runLoc.id)]
    /\ runPc' = "rm_close"
    /\ UNCHANGED <<clientCount, doneClosed, runLoc, pc, ret, panic, calls>>

\* close(client.(*Client).Message): the assertion panics on the placeholder,
\* close panics on a closed channel.
RunRemoveClose ==
    /\ Alive
    /\ runPc = "rm_close"
    /\ IF runLoc.val.kind # "client"
       THEN /\ panic' = PanicTypeAssertion
            /\ runPc' = "panicked"
            /\ UNCHANGED heap
       ELSE LET k == runLoc.val.ptr IN
            /\ heap' = [heap EXCEPT ![k] = [CloseChan(heap[k]) EXCEPT !.st = "closed"]]
            /\ IF IsClosed(heap[k])
               THEN panic' = PanicCloseClosed /\ runPc' = "panicked"
               ELSE panic' = panic /\ runPc' = "rm_decr"
    /\ UNCHANGED <<clients, clientCount, doneClosed, runLoc, pc, loc, ret, calls>>

RunRemoveDecrement ==
    /\ Alive
    /\ runPc = "rm_decr"
    /\ clientCount' = decrementClientCount(clientCount)
    /\ heap' = [heap EXCEPT ![runLoc.val.ptr].st = "gone"]
    /\ runPc' = "select"
    /\ runLoc' = NoRunLoc
    /\ UNCHANGED <<clients, doneClosed, pc, loc, ret, panic, calls>>

\* -------------------------------------------------------------- Shutdown
Shutdown(c) ==
    /\ CanCall(c)
    /\ calls' = calls + 1
    /\ IF doneClosed
       THEN /\ panic' = PanicCloseDone
            /\ UNCHANGED <<doneClosed, pc, loc, ret>>
       ELSE /\ doneClosed' = TRUE
            /\ panic' = panic
            /\ Return(c, [kind |-> "void", v |-> 0])
    /\ UNCHANGED <<clients, clientCount, heap, runPc, runLoc>>

\* case <-s.done of Run's select: ready once done is closed.
RunDone ==
    /\ Alive
    /\ runPc = "select"
    /\ doneClosed
    /\ runPc' = "sd_range"
    /\ runLoc' = [NoRunLoc EXCEPT !.snap = Keys(clients)]
    /\ UNCHANGED <<clients, clientCount, doneClosed, heap, pc, loc, ret, panic, calls>>

\* One call of the function given to Range: value.(*Client), then close.
RunShutdownVisit ==
    /\ Alive
    /\ runPc = "sd_range"
    /\ \E id \in RangeCandidates(clients, runLoc.visited) :
        LET v == Load(clients, id) IN
        /\ runLoc' = [runLoc EXCEPT !.visited = @ \cup {id}]
        /\ IF v.kind # "client"
           THEN /\ panic' = PanicTypeAssertion
                /\ runPc' = "panicked"
                /\ UNCHANGED heap
           ELSE /\ heap' = [heap EXCEPT ![v.ptr] = CloseChan(heap[v.ptr])]
                /\ IF IsClosed(heap[v.ptr])
                   THEN panic' = PanicCloseClosed /\ runPc' = "panicked"
                   ELSE panic' = panic /\ runPc' = runPc
    /\ UNCHANGED <<clients, clientCount, doneClosed, pc, loc, ret, calls>>

RunShutdownReturn ==
    /\ Alive
    /\ runPc = "sd_range"
    /\ RangeDone(runLoc.snap, runLoc.visited)
    /\ runPc' = "returned"
    /\ runLoc' = NoRunLoc
    /\ UNCHANGED <<clients, clientCount, doneClosed, heap, pc, loc, ret, panic, calls>>

\* ----------------------------------------------------------- ClientCount
\* What the callers and the loop have seen of each client when ClientCount
\* reads the counter.  A remove of id is pending when a RemoveClient(id) has
\* begun and Run has not yet taken the entry out of the map.
RemoveSent(id) == runPc \in {"rm_load", "rm_delete"} /\ runLoc.id = id
RemovePending(id) == RemoveSent(id) \/ \E c \in Callers : pc[c] = "rm_send" /\ loc[c].id = id
Returned(k) == heap[k].st \in {"handed", "stored", "live"}
\* AddClient has returned the client and no remove of its id has begun
AckedAdded == {k \in Ptrs : Returned(k) /\ ~RemovePending(heap[k].ID)}
\* a RemoveClient of the registered client's id has returned
AckedRemoved == {k \in Ptrs : \/ heap[k].st \in {"deleted", "closed", "gone"}
                              \/ heap[k].st = "live" /\ RemoveSent(heap[k].ID)}
AckedLow == Cardinality(AckedAdded)
AckedHigh == Cardinality(Allocated(heap) \ AckedRemoved)
\* Run has finished the add branch and has not begun to take the client out
ProcessedLow == Cardinality({k \in Ptrs : heap[k].st = "live"})
\* Run has received the client and has not finished its remove branch
ProcessedHigh == Cardinality({k \in Ptrs : heap[k].st \in {"handed", "stored", "live", "deleted", "closed"}})

\* does the value n count every acknowledged (processed) add and no
\* acknowledged (processed) remove
CountsAcked(n) == AckedLow <= n /\ n <= AckedHigh
CountsProcessed(n) == ProcessedLow <= n /\ n <= ProcessedHigh

CallClientCount(c) ==
    /\ CanCall(c)
    /\ calls' = calls + 1
    /\ ret' = [ret EXCEPT ![c] = [kind |-> "count", v |-> ClientCount,
                                  acked |-> CountsAcked(ClientCount),
                                  processed |-> CountsProcessed(ClientCount)]]
    /\ UNCHANGED <<clients, clientCount, doneClosed, heap, runPc, runLoc, pc, loc, panic>>

\* --------------------------------------------------- SendMessageToClient
Delivering(c) == pc[c] \in {"snd_select", "bc_range"}
DeliveriesReturned == {n \in 1..calls : \A c \in Callers : ~(Delivering(c) /\ loc[c].msg.call = n)}
NewMsg(p) == Msg(p, calls + 1, DeliveriesReturned)

SendMessageToClient(c, id, msg) ==
    /\ CanCall(c)
    /\ calls' = calls + 1
    /\ IF LoadOk(clients, id)
       THEN /\ pc' = [pc EXCEPT ![c] = "snd_select"]
            /\ loc' = [loc EXCEPT ![c] = [NoLoc EXCEPT !.id = id, !.msg = NewMsg(msg),
                                                       !.val = Load(clients, id)]]
            /\ ret' = [ret EXCEPT ![c] = NoRet]
       ELSE Return(c, [kind |-> "notfound", v |-> id])
    /\ UNCHANGED <<clients, clientCount, doneClosed, heap, runPc, runLoc, panic>>

\* select { case client.(*Client).Message <- msg: ... default: ... }
SendSelect(c) ==
    /\ Alive
    /\ pc[c] = "snd_select"
    /\ LET v == loc[c].val IN
       IF v.kind # "client"
       THEN /\ panic' = PanicTypeAssertion
            /\ UNCHANGED <<heap, pc, loc, ret>>
       ELSE IF IsClosed(heap[v.ptr])
       THEN /\ panic' = PanicSendClosed
            /\ UNCHANGED <<heap, pc, loc, ret>>
       ELSE IF CanSend(heap[v.ptr])
       THEN /\ heap' = [heap EXCEPT ![v.ptr] = SendChan(heap[v.ptr], loc[c].msg)]
            /\ Return(c, [kind |-> "nil", v |-> 0])
            /\ panic' = panic
       ELSE /\ Return(c, [kind |-> "notready", v |-> loc[c].id])
            /\ UNCHANGED <<heap, panic>>
    /\ UNCHANGED <<clients, clientCount, doneClosed, runPc, runLoc, calls>>

\* ------------------------------------------------------ BroadcastMessage
BeginsAlone ==
    /\ runPc = "select"
    /\ ~doneClosed
    /\ \A d \in Callers : pc[d] = "idle"

BroadcastMessage(c, msg) ==
    /\ CanCall(c)
    /\ calls' = calls + 1
    /\ pc' = [pc EXCEPT ![c] = "bc_range"]
    /\ loc' = [loc EXCEPT ![c] = [NoLoc EXCEPT !.msg = NewMsg(msg), !.snap = Keys(clients),
                                               !.alone = BeginsAlone,
                                               !.pre = IF BeginsAlone
                                                       THEN [heap |-> heap, count |-> clientCount]
                                                       ELSE NoPre]]
    /\ ret' = [ret EXCEPT ![c] = NoRet]
    /\ UNCHANGED <<clients, clientCount, doneClosed, heap, runPc, runLoc, panic>>

\* err = fmt.Errorf(... key): a later failure replaces an earlier one.
\* fails keeps the ids whose select took the default, in visit order.
FirstError(old, id) == IF old = 0 THEN id ELSE old
LastError(old, id) == id

BroadcastVisit(c) ==
    /\ Alive
    /\ pc[c] = "bc_range"
    /\ \E id \in RangeCandidates(clients, loc[c].visited) :
        LET v == Load(clients, id) IN
        IF v.kind # "client"
        THEN /\ panic' = PanicTypeAssertion
             /\ UNCHANGED <<heap, loc>>
        ELSE IF IsClosed(heap[v.ptr])
        THEN /\ panic' = PanicSendClosed
             /\ UNCHANGED <<heap, loc>>
        ELSE IF CanSend(heap[v.ptr])
        THEN /\ heap' = [heap EXCEPT ![v.ptr] = SendChan(heap[v.ptr], loc[c].msg)]
             /\ loc' = [loc EXCEPT ![c].visited = @ \cup {id}]
             /\ panic' = panic
        ELSE /\ loc' = [loc EXCEPT ![c].visited = @ \cup {id},
                                   ![c].err = "notready",
                                   ![c].errId = LastError(loc[c].errId, id),
                                   ![c].fails = Append(@, id)]
             /\ UNCHANGED <<heap, panic>>
    /\ UNCHANGED <<clients, clientCount, doneClosed, runPc, runLoc, pc, ret, calls>>

BroadcastReturn(c) ==
    /\ Alive
    /\ pc[c] = "bc_range"
    /\ RangeDone(loc[c].snap, loc[c].visited)
    /\ Return(c, [kind |-> loc[c].err, v |-> loc[c].errId])
    /\ UNCHANGED <<clients, clientCount, doneClosed, heap, runPc, runLoc, panic, calls>>

\* ---------------------------------------------------- SSEHandlerEndpoint
\* The adapter serving one request: it takes a subscriber from AddClient
\* (generateClientID and AddClientSend, with ep set), defers the remove of
\* that subscriber, and after the headers turns the outbox into frames on
\* the response until the outbox is closed, a write fails or the request's
\* context is cancelled.  got is what it has dequeued, wire the frames
\* written to w, flushed how many of them have been flushed.
HttpOK == 200
HttpInternalServerError == 500
FrameBare(m) == <<m>>
Frame(m) == <<"data: ", m, "\n\n">>
ChanReady(o) == Len(o.Message) > 0 \/ IsClosed(o)
RecvOk(o) == Len(o.Message) > 0
RecvKeep(o) == o
Recv(o) == [o EXCEPT !.Message = Tail(@)]

SSEHandlerEndpoint(c) ==
    /\ CanCall(c)
    /\ AddsBegun < MaxAdds
    /\ calls' = calls + 1
    /\ pc' = [pc EXCEPT ![c] = "add_gen"]
    /\ loc' = [loc EXCEPT ![c] = [NoLoc EXCEPT !.size = DefaultBufferSize, !.ep = TRUE,
                                               !.late = doneClosed]]
    /\ ret' = [ret EXCEPT ![c] = NoRet]
    /\ UNCHANGED <<clients, clientCount, doneClosed, heap, runPc, runLoc, panic>>

\* return of the adapter: the deferred handler.RemoveClient(client.ID)
\* where the adapter goes when it returns: into the deferred call
EndpointReturnsAtOnce == "idle"
EndpointReturn == "rm_send"
DeferredRemove(l, why) == [l EXCEPT !.id = heap[l.obj].ID, !.own = l.obj, !.exit = why,
                                    !.late = doneClosed]

\* headers, then w.(http.Flusher): without it, http.Error and return
EndpointHeaders(c) ==
    /\ Alive
    /\ pc[c] = "ep_headers"
    /\ \E ok \in BOOLEAN :
        IF ok
        THEN /\ pc' = [pc EXCEPT ![c] = "ep_select"]
             /\ loc' = [loc EXCEPT ![c].status = HttpOK]
        ELSE /\ pc' = [pc EXCEPT ![c] = EndpointReturn]
             /\ loc' = [loc EXCEPT ![c] = DeferredRemove(
                            [loc[c] EXCEPT !.status = HttpInternalServerError], "unsupported")]
    /\ UNCHANGED <<clients, clientCount, doneClosed, heap, runPc, runLoc, ret, panic, calls>>

\* case msg, ok := <-client.Message: a buffered payload is received also
\* from a closed channel; !ok comes when it is closed and empty.
EndpointReceive(c) ==
    /\ Alive
    /\ pc[c] = "ep_select"
    /\ ChanReady(heap[loc[c].obj])
    /\ IF RecvOk(heap[loc[c].obj])
       THEN /\ heap' = [heap EXCEPT ![loc[c].obj] = Recv(@)]
            /\ loc' = [loc EXCEPT ![c].msg = Head(heap[loc[c].obj].Message),
                                   ![c].got = Append(@, Head(heap[loc[c].obj].Message))]
            /\ pc' = [pc EXCEPT ![c] = "ep_write"]
       ELSE /\ pc' = [pc EXCEPT ![c] = EndpointReturn]
            /\ loc' = [loc EXCEPT ![c] = DeferredRemove(loc[c], "closed")]
            /\ UNCHANGED heap
    /\ UNCHANGED <<clients, clientCount, doneClosed, runPc, runLoc, ret, panic, calls>>

\* case <-r.Context().Done(): the peer may go away at any time
EndpointCancel(c) ==
    /\ Alive
    /\ pc[c] = "ep_select"
    /\ pc' = [pc EXCEPT ![c] = EndpointReturn]
    /\ loc' = [loc EXCEPT ![c] = DeferredRemove(loc[c], "cancelled")]
    /\ UNCHANGED <<clients, clientCount, doneClosed, heap, runPc, runLoc, ret, panic, calls>>

\* w.Write([]byte("data: " + string(msg) + "\n\n")), which may fail
EndpointWrite(c) ==
    /\ Alive
    /\ pc[c] = "ep_write"
    /\ \E err \in BOOLEAN :
        IF err
        THEN /\ pc' = [pc EXCEPT ![c] = EndpointReturn]
             /\ loc' = [loc EXCEPT ![c] = DeferredRemove(loc[c], "write failed")]
        ELSE /\ pc' = [pc EXCEPT ![c] = "ep_flush"]
             /\ loc' = [loc EXCEPT ![c].wire = Append(@, Frame(loc[c].msg))]
    /\ UNCHANGED <<clients, clientCount, doneClosed, heap, runPc, runLoc, ret, panic, calls>>

\* flusher.Flush(), then the next turn of the loop
EndpointFlush(c) ==
    /\ Alive
    /\ pc[c] = "ep_flush"
    /\ pc' = [pc EXCEPT ![c] = "ep_select"]
    /\ loc' = [loc EXCEPT ![c].flushed = Len(loc[c].wire)]
    /\ UNCHANGED <<clients, clientCount, doneClosed, heap, runPc, runLoc, ret, panic, calls>>

\* ------------------------------------------------------------------ Next
RunStep ==
    \/ RunAddStore
    \/ RunAddIncrement
    \/ RunRemoveLoad
    \/ RunRemoveDelete
    \/ RunRemoveClose
    \/ RunRemoveDecrement
    \/ RunShutdownVisit
    \/ RunShutdownReturn

CallerStep(c) ==
    \/ generateClientID(c)
    \/ EndpointHeaders(c)
    \/ EndpointReceive(c)
    \/ EndpointWrite(c)
    \/ EndpointFlush(c)
    \/ SendSelect(c)
    \/ BroadcastVisit(c)
    \/ BroadcastReturn(c)

Next ==
    \/ \E c \in Callers, size \in BufferSizes : AddClient(c, size)
    \/ \E c \in Callers : generateClientID(c)
    \/ \E c \in Callers : AddClientSend(c)
    \/ RunAddStore
    \/ RunAddIncrement
    \/ \E c \in Callers, id \in Ids : RemoveClient(c, id)
    \/ \E c \in Callers : RemoveClientSend(c)
    \/ RunRemoveLoad
    \/ RunRemoveDelete
    \/ RunRemoveClose
    \/ RunRemoveDecrement
    \/ \E c \in Callers : Shutdown(c)
    \/ RunDone
    \/ RunShutdownVisit
    \/ RunShutdownReturn
    \/ \E c \in Callers : CallClientCount(c)
    \/ \E c \in Callers, id \in Ids, msg \in Payloads : SendMessageToClient(c, id, msg)
    \/ \E c \in Callers : SendSelect(c)
    \/ \E c \in Callers, msg \in Payloads : BroadcastMessage(c, msg)
    \/ \E c \in Callers : BroadcastVisit(c)
    \/ \E c \in Callers : BroadcastReturn(c)
    \/ \E c \in Callers : SSEHandlerEndpoint(c)
    \/ \E c \in Callers : EndpointHeaders(c)
    \/ \E c \in Callers : EndpointReceive(c)
    \/ \E c \in Callers : EndpointCancel(c)
    \/ \E c \in Callers : EndpointWrite(c)
    \/ \E c \in Callers : EndpointFlush(c)

Spec == Init /\ [][Next]_vars

\* Every goroutine that can take a step is eventually scheduled (weak
\* fairness of the internal steps).  Go's select picks among its ready cases
\* at random, so a case that is ready again and again is eventually taken
\* (strong fairness of the three cases of Run's select; a caller waits in
\* at most one of s.add <- and s.remove <- at a time).  No caller is obliged
\* to begin a call, and no peer to go away (EndpointCancel).
FairNext == Next /\ calls' <= FairCalls
FairSpec ==
    /\ Init /\ [][FairNext]_vars
    /\ WF_vars(RunStep)
    /\ \A c \in Callers : WF_vars(CallerStep(c))
    /\ \A c \in Callers : SF_vars(AddClientSend(c) \/ RemoveClientSend(c))
    /\ SF_vars(RunDone)

TypeOK ==
    /\ clientCount \in Int
    /\ doneClosed \in BOOLEAN
    /\ \A id \in Ids : clients[id].kind \in {"none", "placeholder", "client"}
    /\ \A k \in Ptrs : Len(heap[k].Message) <= heap[k].cap
    /\ calls \in 0..MaxCalls
\* ================================================================ claims
Last(q) == q[Len(q)]
Subscribers == {id \in Ids : clients[id].kind = "client"}
OpenIds == {id \in Subscribers : ~IsClosed(heap[clients[id].ptr])}
\* Run waits at its select, no call is in progress, Shutdown was not called
Quiescent ==
    /\ Alive
    /\ runPc = "select"
    /\ ~doneClosed
    /\ \A c \in Callers : pc[c] = "idle"

\* C1: in every reachable state clientCount equals the number of entries of
\* the clients map.
C1_CountEqualsMapSize == clientCount = Cardinality(Keys(clients))

\* C2: once the loop has processed every AddClient and RemoveClient issued,
\* with no Shutdown, ClientCount() is the number of ids mapped to a
\* subscriber with an open outbox; the count is never negative.
C2_CountMatchesOpenSubscribers ==
    /\ ClientCount >= 0
    /\ Quiescent => ClientCount = Cardinality(OpenIds)

\* one subscriber added and removed again, another one still registered
C2_Witness ==
    /\ Quiescent
    /\ ClientCount = 1
    /\ \E k \in Ptrs : heap[k].st = "gone"

\* C3: no Message channel is closed more than once, by the remove branch or
\* by the shutdown branch, in any interleaving.
C3_ClosedAtMostOnce == \A k \in Ptrs : heap[k].closes <= 1

\* a subscriber closed by a remove, and Shutdown has run after it
C3_Witness ==
    /\ runPc = "returned"
    /\ \E k \in Ptrs : heap[k].st = "gone" /\ heap[k].closes = 1

\* C5: a second Shutdown() does not crash and closes no closed outbox.
C5_ShutdownIdempotent ==
    /\ panic # PanicCloseDone
    /\ doneClosed => \A k \in Ptrs : heap[k].closes <= 1

\* C6: a subscriber is in the clients map iff its outbox is not closed, in
\* every reachable state, also after Shutdown.
Registered(k) == heap[k].st \in {"stored", "live", "deleted", "closed", "gone"}
C6_PresentIffOpen ==
    \A k \in Ptrs : Registered(k) =>
        ((clients[heap[k].ID] = ClientEntry(k)) <=> ~IsClosed(heap[k]))

\* C7: the subscribers AddClient has returned and that were not removed since
\* have pairwise distinct ids, and once the loop has processed what it
\* received ClientCount() is their number.
C7_DistinctIdsAndCount ==
    /\ \A k1, k2 \in Ptrs :
        (k1 # k2 /\ Returned(k1) /\ Returned(k2)) => heap[k1].ID # heap[k2].ID
    /\ (Alive /\ runPc = "select") =>
        ClientCount = Cardinality({k \in Ptrs : Returned(k)})

\* two callers hold two subscribers, both processed, none removed
C7_Witness ==
    /\ runPc = "select"
    /\ ClientCount = 2
    /\ \E c1, c2 \in Callers :
        /\ c1 # c2
        /\ ret[c1].kind = "client" /\ ret[c2].kind = "client"
        /\ heap[ret[c1].v].ID # heap[ret[c2].v].ID

\* C8 as claimed: a ClientCount() counts every subscriber an AddClient has
\* returned (no remove of it begun) and none whose RemoveClient has returned.
C8_AcknowledgedVisible ==
    \A c \in Callers : ret[c].kind = "count" => ret[c].acked

\* C8 amended: a ClientCount() counts every subscriber whose add the loop has
\* finished (and whose removal it has not begun) and none whose removal the
\* loop has finished or whose add it has not received.
C8_ProcessedVisible ==
    \A c \in Callers : ret[c].kind = "count" => ret[c].processed

\* a ClientCount() that no longer counted a subscriber added and removed
C8_Witness ==
    \E c \in Callers :
        /\ ret[c].kind = "count"
        /\ ret[c].v = 0
        /\ ret[c].processed
        /\ \E k \in Ptrs : heap[k].st = "gone"

\* C9: handling RemoveClient(id) for an id that is not registered changes
\* neither the map, the count nor any outbox, and does not crash.
RemoveOfUnregistered ==
    \/ runPc = "rm_load" /\ clients[runLoc.id].kind # "client"
    \/ runPc \in {"rm_delete", "rm_close"} /\ runLoc.val.kind # "client"
C9_RemoveUnknownIsNoop ==
    [][(RemoveOfUnregistered /\ runPc' # runPc) =>
        (clients' = clients /\ clientCount' = clientCount /\ heap' = heap /\ panic' = NoPanic)]_vars
\* the loop serves requests: no Shutdown was called, nothing has crashed
LoopRunning == Alive /\ ~doneClosed /\ runPc \notin {"returned", "panicked"}
\* the clients the counter has been incremented for and not yet decremented
Counted == {k \in Ptrs : heap[k].st \in {"live", "deleted", "closed"}}

\* C4: after Shutdown() is called with the loop running, eventually the loop
\* has terminated and every subscriber left in the map has a closed outbox;
\* from then on the subscribers and the count do not change.  (A crash that
\* a calling goroutine causes, and an AddClient begun after Shutdown, are not
\* held against the loop here.)
ShutdownComplete ==
    /\ runPc = "returned"
    /\ \A id \in Subscribers : IsClosed(heap[clients[id].ptr])
CallerCrashed == ~Alive /\ runPc # "panicked"
AddAfterShutdown == \E c \in Callers : pc[c] \in {"add_gen", "add_send"} /\ loc[c].late
C4_ShutdownCompletes ==
    /\ doneClosed ~> (ShutdownComplete \/ CallerCrashed \/ AddAfterShutdown)
    /\ [][runPc = "returned" =>
            (Subscribers' = Subscribers /\ clientCount' = clientCount)]_vars

\* C10: while the loop is running, an AddClient returns, a RemoveClient of
\* the id it returned returns and is processed; once it is processed the
\* subscriber is out of the map, its outbox is closed (once), and it no
\* longer counts: each subscriber counts from its increment to its decrement.
C10_AddThenRemove ==
    /\ \A c \in Callers :
        (pc[c] \in {"add_gen", "add_send"}) ~>
            (pc[c] \notin {"add_gen", "add_send"} \/ ~LoopRunning)
    /\ \A c \in Callers : \A k \in Ptrs :
        (pc[c] = "rm_send" /\ loc[c].own = k) ~>
            ((~(pc[c] = "rm_send" /\ loc[c].own = k) /\ heap[k].st = "gone") \/ ~LoopRunning)
    /\ [](\A k \in Ptrs : heap[k].st = "gone" =>
            /\ heap[k].closes = 1
            /\ clients[heap[k].ID] # ClientEntry(k))
    /\ [](clientCount = Cardinality(Counted))

\* a caller removed the subscriber it had just added, the loop still running
C10_Witness ==
    /\ LoopRunning
    /\ runPc = "select"
    /\ \E c \in Callers : \E k \in Ptrs :
        /\ pc[c] = "idle"
        /\ ret[c].kind = "void"
        /\ heap[k].st = "gone"
        /\ clientCount = Cardinality(Counted)
        /\ clients[heap[k].ID] = NoEntry

\* ------------------------------------------------------------- delivery
\* A broadcast that began alone and during which no other call has begun:
\* the subscribers registered when it was issued are the keys of loc.snap.
Undisturbed(c) == pc[c] = "bc_range" /\ loc[c].alone /\ calls = loc[c].msg.call
PtrOf(id) == clients[id].ptr
WasFull(c, id) == Len(loc[c].pre.heap[PtrOf(id)].Message) >= loc[c].pre.heap[PtrOf(id)].cap
NoneWasFull(c) == \A id \in loc[c].snap : ~WasFull(c, id)
Delivered(c, id) ==
    heap[PtrOf(id)].Message = Append(loc[c].pre.heap[PtrOf(id)].Message, loc[c].msg)
Untouched(c, id) == heap[PtrOf(id)].Message = loc[c].pre.heap[PtrOf(id)].Message
SameMembership(c) ==
    /\ Keys(clients) = loc[c].snap
    /\ Subscribers = loc[c].snap
    /\ clientCount = loc[c].pre.count

\* C11: a BroadcastMessage(p) issued when K subscribers are registered, no
\* other call is in progress and no outbox is full, puts p once at the tail
\* of each of the K outboxes, leaves membership and count as they were, and
\* returns nil.
C11_BroadcastDeliversToAll ==
    /\ [](\A c \in Callers : (Undisturbed(c) /\ NoneWasFull(c)) =>
            /\ Alive
            /\ SameMembership(c)
            /\ loc[c].visited \subseteq loc[c].snap
            /\ \A id \in loc[c].visited : Delivered(c, id) /\ Last(heap[PtrOf(id)].Message).p = loc[c].msg.p
            /\ \A id \in loc[c].snap \ loc[c].visited : Untouched(c, id)
            /\ loc[c].err = "nil")
    /\ [][\A c \in Callers : (Undisturbed(c) /\ NoneWasFull(c) /\ pc'[c] = "idle") =>
            /\ loc[c].visited = loc[c].snap
            /\ ret'[c] = [kind |-> "nil", v |-> 0]
            /\ heap' = heap /\ clients' = clients /\ clientCount' = clientCount]_vars

\* a broadcast has returned nil after reaching two subscribers
C11_Witness ==
    /\ calls = 3
    /\ Cardinality(Subscribers) = 2
    /\ \E c \in Callers : pc[c] = "idle" /\ ret[c] = [kind |-> "nil", v |-> 0]
    /\ \A id \in Subscribers :
        /\ Len(heap[PtrOf(id)].Message) = 1
        /\ heap[PtrOf(id)].Message[1].call = calls

\* What has gone through the outbox of client k that is still known: what
\* the adapter serving it has dequeued, then what is still in the channel.
Serving(c, k) == loc[c].ep /\ loc[c].obj = k /\ pc[c] \in {"ep_headers", "ep_select", "ep_write", "ep_flush", "rm_send"}
Dequeued(k) == IF \E c \in Callers : Serving(c, k)
               THEN loc[CHOOSE c \in Callers : Serving(c, k)].got
               ELSE <<>>
Outbox(k) == Dequeued(k) \o heap[k].Message
\* the delivery call of m had returned when the call of n began
ReturnedBefore(m, n) == m.call \in n.after

\* C12: per subscriber, payloads leave the outbox in the order of the calls
\* that enqueued them: if one delivery call returned before another began
\* and both enqueued to the subscriber, the first is dequeued (or still
\* queued) ahead of the second; a payload is in the outbox once.
C12_PerSubscriberOrder ==
    \A k \in Ptrs : \A i, j \in 1..Len(Outbox(k)) :
        i < j => /\ ~ReturnedBefore(Outbox(k)[j], Outbox(k)[i])
                 /\ Outbox(k)[i].call # Outbox(k)[j].call

\* an adapter has dequeued the payloads of two calls, the second begun
\* after the first had returned
C12_Witness ==
    \E c \in Callers :
        /\ loc[c].ep
        /\ Len(loc[c].got) = 2
        /\ ReturnedBefore(loc[c].got[1], loc[c].got[2])

\* C13: in a BroadcastMessage(p) issued with no other call in progress, a
\* subscriber whose outbox is full keeps its outbox as it was, every other
\* subscriber still gets p at the tail of its outbox, in whatever order
\* Range visits them, and the call returns the not-ready error of a
\* subscriber whose outbox was full.
C13_FullOutboxIsLocal ==
    /\ [](\A c \in Callers : Undisturbed(c) =>
            /\ Alive
            /\ SameMembership(c)
            /\ \A id \in loc[c].snap :
                IF id \in loc[c].visited /\ ~WasFull(c, id)
                THEN Delivered(c, id)
                ELSE Untouched(c, id)
            /\ (loc[c].err = "notready") = (\E id \in loc[c].visited : WasFull(c, id)))
    /\ [][\A c \in Callers : (Undisturbed(c) /\ ~NoneWasFull(c) /\ pc'[c] = "idle") =>
            /\ loc[c].visited = loc[c].snap
            /\ ret'[c].kind = "notready"
            /\ ret'[c].v \in loc[c].snap /\ WasFull(c, ret'[c].v)
            /\ heap' = heap /\ clients' = clients /\ clientCount' = clientCount]_vars

\* a broadcast has returned not-ready for a, whose outbox is full of older
\* payloads, and has reached b
C13_Witness ==
    \E c \in Callers : \E a, b \in Subscribers :
        /\ a # b
        /\ Quiescent
        /\ ret[c] = [kind |-> "notready", v |-> a]
        /\ Len(heap[PtrOf(a)].Message) = heap[PtrOf(a)].cap
        /\ Last(heap[PtrOf(a)].Message).call < calls
        /\ Len(heap[PtrOf(b)].Message) = 2
        /\ Last(heap[PtrOf(b)].Message).call = calls

\* the three outcomes of a SendMessageToClient call, judged on the step
\* that ends it
SendNotFound(c) ==
    /\ ret'[c].kind = "notfound"
    /\ clients[ret'[c].v].kind # "client"
    /\ heap' = heap
SendNotReady(c) ==
    /\ loc[c].val.kind = "client"
    /\ Len(heap[loc[c].val.ptr].Message) >= heap[loc[c].val.ptr].cap
    /\ ret'[c] = [kind |-> "notready", v |-> loc[c].id]
    /\ heap' = heap
SendDone(c) ==
    /\ loc[c].val.kind = "client"
    /\ Len(heap[loc[c].val.ptr].Message) < heap[loc[c].val.ptr].cap
    /\ ret'[c] = [kind |-> "nil", v |-> 0]
    /\ heap' = [heap EXCEPT ![loc[c].val.ptr].Message = Append(@, loc[c].msg)]

\* C14: a SendMessageToClient(id, p) call ends in one of three ways: with
\* the not-found error and no change when id is not registered, with the
\* not-ready error and no change when the outbox of id is full, or with nil
\* and p appended to that outbox only; membership and count never change.
C14_SendThreeOutcomes ==
    [][\A c \in Callers :
        /\ (\E id \in Ids, msg \in Payloads : SendMessageToClient(c, id, msg) /\ pc'[c] = "idle")
              => SendNotFound(c)
        /\ SendSelect(c) => (SendNotReady(c) \/ SendDone(c))
        /\ ((\E id \in Ids, msg \in Payloads : SendMessageToClient(c, id, msg)) \/ SendSelect(c))
              => (panic' = NoPanic /\ clients' = clients /\ clientCount' = clientCount)]_vars

\* C15: a BroadcastMessage or SendMessageToClient call never waits: while
\* it is in progress its next step can always be taken, whatever is in the
\* outboxes and wherever the loop is, and under fair scheduling the call
\* comes to its end (it returns, unless a panic ends the process first).
C15_DeliveryNeverBlocks ==
    /\ [](\A c \in Callers : (Delivering(c) /\ Alive) => ENABLED CallerStep(c))
    /\ \A c \in Callers : Delivering(c) ~> (~Delivering(c) \/ ~Alive)

\* a delivery has returned not-ready with every outbox full and no reader
C15_Witness ==
    \E c \in Callers :
        /\ pc[c] = "idle"
        /\ ret[c].kind = "notready"
        /\ Subscribers # {}
        /\ \A id \in Subscribers : Len(heap[PtrOf(id)].Message) = heap[PtrOf(id)].cap
        /\ \A d \in Callers : ~loc[d].ep

\* client k is in the map under its id
RegisteredClient(k) == clients[heap[k].ID] = ClientEntry(k)
Enqueues(k) == heap'[k].Message # heap[k].Message /\ Len(heap'[k].Message) > Len(heap[k].Message)

\* C16: however a delivery interleaves with the loop processing a
\* RemoveClient or a Shutdown, and after a Shutdown, no step of
\* BroadcastMessage or SendMessageToClient sends on a closed outbox (the
\* call does not crash) and none enqueues onto the outbox of a subscriber
\* that has been taken out of the registry.
C16_NoSendOnClosedOutbox ==
    [][\A c \in Callers : (SendSelect(c) \/ BroadcastVisit(c)) =>
        /\ panic' # PanicSendClosed
        /\ \A k \in Ptrs : Enqueues(k) => (RegisteredClient(k) /\ ~IsClosed(heap[k]))]_vars

\* caller c is inside AddClient or RemoveClient
InAddOrRemove(c) == pc[c] \in {"add_gen", "add_send", "rm_send"}

\* C17: under fair scheduling an AddClient or RemoveClient call that began
\* while the loop was running and before Shutdown was called returns,
\* whatever other calls, a later Shutdown among them, go on beside it (a
\* panic that ends the process is not held against the call).
C17_AddRemoveReturn ==
    \A c \in Callers :
        (InAddOrRemove(c) /\ ~loc[c].late) ~> (~InAddOrRemove(c) \/ ~Alive)

\* ---------------------------------------------------------------- adapter
InEndpointLoop(c) == pc[c] \in {"ep_headers", "ep_select", "ep_write", "ep_flush"}
\* the adapter of c has left its loop and is in its deferred RemoveClient
Leaving(c, k) == pc[c] = "rm_send" /\ loc[c].ep /\ loc[c].obj = k
Reclaimed(k) ==
    /\ heap[k].st = "gone"
    /\ ~RegisteredClient(k)
    /\ heap[k].closes = 1
    /\ k \notin Counted

Adapter(c) == loc[c].ep /\ pc[c] \in {"ep_headers", "ep_select", "ep_write", "ep_flush", "rm_send"}
\* the frames for the payloads q, in order
Framed(q) == [i \in 1..Len(q) |-> <<"data: ", q[i], "\n\n">>]
FramesFollowDequeues(c) ==
    /\ loc[c].wire = Framed(SubSeq(loc[c].got, 1, Len(loc[c].wire)))
    /\ Len(loc[c].wire) = CASE pc[c] \in {"ep_headers", "ep_select", "ep_flush"} -> Len(loc[c].got)
                            [] pc[c] = "ep_write" -> Len(loc[c].got) - 1
                            [] OTHER -> IF loc[c].exit = "write failed"
                                        THEN Len(loc[c].got) - 1
                                        ELSE Len(loc[c].got)
    /\ loc[c].flushed = IF pc[c] = "ep_flush" THEN Len(loc[c].wire) - 1 ELSE Len(loc[c].wire)
\* the adapter writes to w
Writes(c) == loc[c].ep /\ loc'[c].ep /\ loc'[c].wire # loc[c].wire
WritesOnlyDequeued ==
    [][\A c \in Callers : Writes(c) =>
        /\ pc[c] = "ep_write"
        /\ loc'[c].wire = Append(loc[c].wire, <<"data: ", loc[c].msg, "\n\n">>)]_vars

C20_PlaceholderNeverObserved ==
    /\ panic # PanicTypeAssertion
    /\ runLoc.val # PlaceholderEntry
    /\ \A c \in Callers : loc[c].val # PlaceholderEntry

\* the outbox of c's adapter is closed, or its request has been cancelled
MustFinish(c) ==
    /\ Adapter(c)
    /\ IsClosed(heap[loc[c].obj]) \/ loc[c].exit = "cancelled"

\* C21: under fair scheduling an adapter whose outbox is closed or whose
\* request is cancelled returns from SSEHandlerEndpoint, deferred remove
\* included, also when it was Shutdown that closed the outbox (a panic that
\* ends the process is not held against the adapter).
C21_AdapterFinishes ==
    \A c \in Callers : MustFinish(c) ~> (~Adapter(c) \/ ~Alive)

\* the result BroadcastMessage owes for the failures fs, in visit order
ErrorFor(fs) == IF fs = <<>> THEN [kind |-> "nil", v |-> 0]
                ELSE [kind |-> "notready", v |-> Last(fs)]
\* c's broadcast visits id on this step
Visits(c, id) == pc[c] = "bc_range" /\ id \notin loc[c].visited /\ id \in loc'[c].visited

\* C22: BroadcastMessage returns nil exactly when the enqueue succeeded
\* for every subscriber it visited; a full outbox does not end the
\* iteration (every id that stayed in the map is visited before the call
\* returns), and the error returned names the subscriber whose enqueue
\* failed last in visit order.
C22_BroadcastError ==
    /\ [](\A c \in Callers : pc[c] = "bc_range" =>
            /\ [kind |-> loc[c].err, v |-> loc[c].errId] = ErrorFor(loc[c].fails)
            /\ \A i \in 1..Len(loc[c].fails) : loc[c].fails[i] \in loc[c].visited)
    /\ [][\A c \in Callers : \A id \in Ids : (Visits(c, id) /\ clients[id].kind = "client") =>
            IF heap'[PtrOf(id)].Message = Append(heap[PtrOf(id)].Message, loc[c].msg)
            THEN loc'[c].fails = loc[c].fails
            ELSE heap' = heap /\ loc'[c].fails = Append(loc[c].fails, id)]_vars
    /\ [][\A c \in Callers : (pc[c] = "bc_range" /\ pc'[c] = "idle") =>
            /\ loc[c].snap \subseteq loc[c].visited
            /\ ret'[c] = ErrorFor(loc[c].fails)]_vars

\* a broadcast has found two outboxes full, has visited every subscriber
\* and is about to return the error of the second
C22_Witness ==
    \E c \in Callers :
        /\ pc[c] = "bc_range"
        /\ Len(loc[c].fails) = 2
        /\ loc[c].fails[1] # loc[c].fails[2]
        /\ loc[c].visited = Keys(clients)
        /\ loc[c].errId = loc[c].fails[2]
====
